---- MODULE Spec2Model ----
(***************************************************************************)
(* A model of soar's dispatch core: the Router actor (src/src/router.rs),  *)
(* its AnyMap routing table, the pending routes backed by a Shared future, *)
(* the SoarResponse wrapper that answers the caller of send, the test      *)
(* handlers (src/src/test_helpers.rs) and the two HttpHandler variants     *)
(* (src/src/channel.rs, JSON; src/src/http/client.rs, bincode).            *)
(*                                                                         *)
(* One step of the model is one uninterrupted piece of the single-threaded *)
(* cooperative execution: the Router handling one mailbox message, one     *)
(* poll of a spawned future, one handler handling one message.             *)
(***************************************************************************)
EXTENDS Integers, Sequences, FiniteSets, TLC

\* ------------------------------------------------------------------ bounds
MaxMsgs == 3       \* messages callers and the bootstrap send in one run (requests and registrations)

Calls == 1..MaxMsgs
Futs == 1..MaxMsgs

\* ------------------------------------------------------------ message types
\* The request types of test_helpers.rs and their payloads (TestMessage
\* carries a u8, TestMessageEmpty carries nothing).
Types == {"TestMessage", "TestMessageEmpty"}
Values == {42, 138}
NoVal == 0

Payloads(t) == IF t = "TestMessage" THEN Values ELSE {NoVal}

TestResponse(x) == [tag |-> "TestResponse", val |-> x]
Unit == [tag |-> "Unit", val |-> NoVal]

\* Handler references (Recipient<M>): two TestHandler actors.
LocalHandlers == {"h1", "h2"}

\* TestHandler::handle: echoes a TestMessage, answers () to TestMessageEmpty.
TestHandler_handle(t, v) == IF t = "TestMessage" THEN TestResponse(v) ELSE Unit

\* ---------------------------------------------------------------- arbiters
\* The execution contexts (actix arbiters).  Router is an ArbiterService: the
\* registry of each arbiter holds its own Router.
Arbiters == {"main", "peer"}
Main == "main"

\* A registry that holds one Router for the whole system.
registry_get_system(a) == Main

\* Arbiter::registry().get::<Router>() called on arbiter a: the Router of a.
registry_get(a) == a

\* ---------------------------------------------------------------- AnyMap
\* The table is an AnyMap: at most one value per Rust type, keyed by the
\* TypeId of the value's type.  Route<M> and M are different keys.
TypeIdRoute(t) == <<"Route", t>>
TypeIdMsg(t) == <<"Msg", t>>
TypeIds == {TypeIdRoute(t) : t \in Types} \cup {TypeIdMsg(t) : t \in Types}

Absent == [kind |-> "Absent"]
Done(h) == [kind |-> "Done", h |-> h]
Pending(f) == [kind |-> "Pending", fut |-> f]

anymap_insert(map, key, value) == [map EXCEPT ![key] = value]
anymap_remove(map, key) == [map EXCEPT ![key] = Absent]
anymap_get(map, key) == map[key]

\* Router::new
Router_new == [k \in TypeIds |-> Absent]

\* insert_handler that keeps an entry the table already holds.
insert_handler_if_absent(rt, t, h) ==
    IF rt[TypeIdRoute(t)] = Absent THEN anymap_insert(rt, TypeIdRoute(t), Done(h)) ELSE rt

\* Router::insert_handler::<M>(handler): routes.insert(Route::Done(handler)),
\* the value has type Route<M>.
insert_handler(rt, t, h) == anymap_insert(rt, TypeIdRoute(t), Done(h))

\* routes.insert(Route::Pending(shared)) of Handler<AddRouteFuture<M, F>>.
insert_pending(rt, t, f) == anymap_insert(rt, TypeIdRoute(t), Pending(f))

\* Router::remove_handler::<M>(): routes.remove::<M>(), keyed by the message
\* type M itself.
remove_handler(rt, t) == anymap_remove(rt, TypeIdMsg(t))

\* Router::get_recipient::<M>(): routes.get().cloned(), a Route<M>; Absent is
\* the ok_or_else branch ("No route found").
get_recipient(rt, t) == anymap_get(rt, TypeIdRoute(t))


\* ------------------------------------------------------------------ state
VARIABLES
    routes,    \* Router.routes, the AnyMap, of the Router of each arbiter
    mailbox,   \* the mailbox (FIFO) of the Router actor of each arbiter
    calls,     \* one record per send call: the caller's future and the spawned task
    futs,      \* the futures given to AddRouteFuture, the Shared around each, its promotion task
    hist,      \* per Router, the table writes it has made (messages handled, promotions), in order
    nsent      \* messages sent to the Router so far

vars == <<routes, mailbox, calls, futs, hist, nsent>>

NoResult == [kind |-> "Pending"]
Ok(r) == [kind |-> "Ok", resp |-> r]
Err(e) == [kind |-> "Err", err |-> e]
NoReply == [kind |-> "None"]
NoLook == [kind |-> "None"]

\* No HTTP exchange made for the call (yet).
NoHttp == [st |-> "none", attempts |-> 0, req |-> <<>>, out |-> [kind |-> "None"],
           res |-> [kind |-> "None"]]

\* A send call that has not been issued yet.
NewCall ==
    [pc |-> "idle", arb |-> Main, t |-> "TestMessage", val |-> NoVal, look |-> NoLook, at |-> 0,
     fwd |-> <<>>, reply |-> NoReply, err |-> "none", result |-> NoResult,
     inner |-> 0, http |-> NoHttp]

\* A future not yet given to the Router.
NewFut ==
    [st |-> "unused", ready |-> "no", val |-> "none", runs |-> 0,
     arb |-> Main, t |-> "TestMessage", promo |-> "none"]

Init ==
    /\ routes = [a \in Arbiters |-> Router_new]
    /\ mailbox = [a \in Arbiters |-> <<>>]
    /\ calls = [c \in Calls |-> NewCall]
    /\ futs = [f \in Futs |-> NewFut]
    /\ hist = [a \in Arbiters |-> <<>>]
    /\ nsent = 0

\* --------------------------------------------------------- the Shared future
\* A poll that starts the computation again for a second clone.
Shared_poll_restart(fr) ==
    IF fr.st = "idle" THEN [fr EXCEPT !.st = "polling", !.runs = @ + 1]
    ELSE IF fr.st = "polling" /\ fr.ready = "no" /\ fr.runs = 1 THEN [fr EXCEPT !.runs = 2]
    ELSE IF fr.st = "polling" /\ fr.ready # "no" THEN [fr EXCEPT !.st = fr.ready]
    ELSE fr

\* futures::future::Shared::poll by one of the clones.  The first poll starts
\* the wrapped computation; a poll after the computation has finished stores
\* its result in the Shared; a poll of a completed Shared changes nothing and
\* hands out a clone of the stored result.
Shared_poll(fr) ==
    IF fr.st = "idle" THEN [fr EXCEPT !.st = "polling", !.runs = @ + 1]
    ELSE IF fr.st = "polling" /\ fr.ready # "no" THEN [fr EXCEPT !.st = fr.ready]
    ELSE fr

\* The wrapped computation finishes (it is the environment's): with a handler
\* reference for its message type, or with an error.
Construct(f, ok, h) ==
    /\ futs[f].st = "polling"
    /\ futs[f].ready = "no"
    /\ futs' = [futs EXCEPT ![f].ready = IF ok THEN "ok" ELSE "err",
                            ![f].val = IF ok THEN h ELSE "none"]
    /\ UNCHANGED <<routes, mailbox, calls, hist, nsent>>

\* ------------------------------------------------------ callers and bootstrap
\* The handler of the add_route call a caller on arbiter a made just before
\* its send of a request of type t: the AddRoute message is the last one of
\* mailbox q ("none" when the last call was no add_route for t).
JustRegistered(q, a, t) ==
    IF q # <<>> /\ q[Len(q)].op = "AddRoute" /\ q[Len(q)].t = t /\ q[Len(q)].from = a
    THEN q[Len(q)].h ELSE "none"

\* send(msg) called on arbiter a: Arbiter::registry().get::<Router>().send(msg);
\* the message is put in the mailbox of that Router and the caller holds the
\* response future.
Send(a, c, t, v) ==
    /\ calls[c].pc = "idle"
    /\ \A d \in Calls : d < c => calls[d].pc # "idle"
    /\ nsent < MaxMsgs
    /\ LET r == registry_get(a) IN
        /\ mailbox' = [mailbox EXCEPT ![r] =
                        Append(@, [op |-> "Dispatch", from |-> a, t |-> t, call |-> c,
                                   after |-> JustRegistered(mailbox[r], a, t)])]
        /\ calls' = [calls EXCEPT ![c].pc = "queued", ![c].arb = a, ![c].t = t, ![c].val = v]
    /\ nsent' = nsent + 1
    /\ UNCHANGED <<routes, futs, hist>>

\* add_route(handler) called on arbiter a: send_spawn(AddRoute(handler.into())).
ReqAddRoute(a, t, h) ==
    /\ nsent < MaxMsgs
    /\ mailbox' = [mailbox EXCEPT ![registry_get(a)] =
                    Append(@, [op |-> "AddRoute", from |-> a, t |-> t, h |-> h])]
    /\ nsent' = nsent + 1
    /\ UNCHANGED <<routes, calls, futs, hist>>

\* An AddRouteFuture { fut } message is sent to the Router of arbiter a.
ReqAddRouteFuture(a, t, f) ==
    /\ nsent < MaxMsgs
    /\ futs[f].st = "unused"
    /\ \A g \in Futs : g < f => futs[g].st # "unused"
    /\ mailbox' = [mailbox EXCEPT ![registry_get(a)] =
                    Append(@, [op |-> "AddRouteFuture", from |-> a, t |-> t, fut |-> f])]
    /\ futs' = [futs EXCEPT ![f].st = "msg", ![f].t = t]
    /\ nsent' = nsent + 1
    /\ UNCHANGED <<routes, calls, hist>>

\* A RemoveRoute message is sent to the Router of arbiter a.
ReqRemoveRoute(a, t) ==
    /\ nsent < MaxMsgs
    /\ mailbox' = [mailbox EXCEPT ![registry_get(a)] =
                    Append(@, [op |-> "RemoveRoute", from |-> a, t |-> t])]
    /\ nsent' = nsent + 1
    /\ UNCHANGED <<routes, calls, futs, hist>>

\* ------------------------------------------------------- the Router's handlers
\* Handler<AddRoute<M>>::handle, in the Router of arbiter a.
HandleAddRoute(a) ==
    /\ mailbox[a] # <<>>
    /\ Head(mailbox[a]).op = "AddRoute"
    /\ LET m == Head(mailbox[a]) IN
        /\ routes' = [routes EXCEPT ![a] = insert_handler(@, m.t, m.h)]
        /\ hist' = [hist EXCEPT ![a] = Append(@, [op |-> "AddRoute", t |-> m.t, h |-> m.h])]
    /\ mailbox' = [mailbox EXCEPT ![a] = Tail(@)]
    /\ UNCHANGED <<calls, futs, nsent>>

\* Handler<AddRouteFuture<M, F>>::handle: the future is wrapped in a Shared,
\* the promotion task (a clone of the Shared mapped to insert_handler) is
\* spawned on the Router's context, and Route::Pending(shared) is stored.
HandleAddRouteFuture(a) ==
    /\ mailbox[a] # <<>>
    /\ Head(mailbox[a]).op = "AddRouteFuture"
    /\ LET m == Head(mailbox[a]) IN
        /\ futs' = [futs EXCEPT ![m.fut].st = "idle", ![m.fut].arb = a,
                                ![m.fut].promo = "active"]
        /\ routes' = [routes EXCEPT ![a] = insert_pending(@, m.t, m.fut)]
        /\ hist' = [hist EXCEPT ![a] = Append(@, [op |-> "AddRouteFuture", t |-> m.t, fut |-> m.fut])]
    /\ mailbox' = [mailbox EXCEPT ![a] = Tail(@)]
    /\ UNCHANGED <<calls, nsent>>

\* Handler<RemoveRoute<M>>::handle
HandleRemoveRoute(a) ==
    /\ mailbox[a] # <<>>
    /\ Head(mailbox[a]).op = "RemoveRoute"
    /\ LET m == Head(mailbox[a]) IN
        /\ routes' = [routes EXCEPT ![a] = remove_handler(@, m.t)]
        /\ hist' = [hist EXCEPT ![a] = Append(@, [op |-> "RemoveRoute", t |-> m.t])]
    /\ mailbox' = [mailbox EXCEPT ![a] = Tail(@)]
    /\ UNCHANGED <<calls, futs, nsent>>

\* A dispatch that awaits the handler's response inside Handler<M>::handle:
\* the Router takes the next request only when every forwarded request has
\* been answered.
HandleDispatch_awaits_reply(a) ==
    /\ mailbox[a] # <<>>
    /\ Head(mailbox[a]).op = "Dispatch"
    /\ \A c \in Calls : calls[c].pc = "forwarded" => calls[c].reply.kind # "None"
    /\ LET m == Head(mailbox[a]) IN
        calls' = [calls EXCEPT ![m.call].pc = "task",
                               ![m.call].look = get_recipient(routes[a], m.t),
                               ![m.call].at = Len(hist[a])]
    /\ mailbox' = [mailbox EXCEPT ![a] = Tail(@)]
    /\ UNCHANGED <<routes, futs, hist, nsent>>

\* A dispatch that waits inside the handler: the Router takes the next
\* request only when no earlier request awaits its route or its response.
HandleDispatch_blocking(a) ==
    /\ mailbox[a] # <<>>
    /\ Head(mailbox[a]).op = "Dispatch"
    /\ \A c \in Calls : calls[c].pc \notin {"task", "forwarded"}
    /\ LET m == Head(mailbox[a]) IN
        calls' = [calls EXCEPT ![m.call].pc = "task",
                               ![m.call].look = get_recipient(routes[a], m.t),
                               ![m.call].at = Len(hist[a])]
    /\ mailbox' = [mailbox EXCEPT ![a] = Tail(@)]
    /\ UNCHANGED <<routes, futs, hist, nsent>>

\* Handler<M>::handle for a request M: get_recipient reads the table now
\* (future::result of routes.get().cloned()); the returned SoarResponse is
\* spawned by MessageResponse::handle and runs later.
HandleDispatch(a) ==
    /\ mailbox[a] # <<>>
    /\ Head(mailbox[a]).op = "Dispatch"
    /\ LET m == Head(mailbox[a]) IN
        calls' = [calls EXCEPT ![m.call].pc = "task",
                               ![m.call].look = get_recipient(routes[a], m.t),
                               ![m.call].at = Len(hist[a])]
    /\ mailbox' = [mailbox EXCEPT ![a] = Tail(@)]
    /\ UNCHANGED <<routes, futs, hist, nsent>>


\* ------------------------------------------------------------ spawned tasks
\* A response wrapper that keeps tx alive when the future fails.
SoarResponse_handle_keeps_tx(r) == IF r.kind = "Ok" THEN Ok(r.resp) ELSE NoResult

\* What the caller of send gets from the future MessageResponse::handle
\* spawns: self.0.and_then(|res| tx.send(res)).map_err(|_| ()).  A response
\* is sent on tx; on an error and_then is skipped, the error is mapped to ()
\* and tx is dropped, which the caller's Request sees as a closed mailbox
\* (send maps it with Error::from).
SoarResponse_handle(r) == IF r.kind = "Ok" THEN Ok(r.resp) ELSE Err("MailboxError")

\* A lookup that keeps waiting on a Shared whose computation failed.
recipient_of_failed_waits(lk, fr) ==
    CASE lk.kind = "Absent" -> [kind |-> "Fail"]
      [] lk.kind = "Done" -> [kind |-> "Ready", h |-> lk.h]
      [] lk.kind = "Pending" ->
            IF fr.st = "ok" THEN [kind |-> "Ready", h |-> fr.val]
            ELSE [kind |-> "NotReady"]

\* A lookup that reads the table again when it is polled, instead of using
\* the Route it cloned.
recipient_of_current_table(lk, fr) ==
    CASE lk.kind = "Absent" -> [kind |-> "Fail"]
      [] lk.kind = "Done" -> [kind |-> "Ready", h |-> lk.h]
      [] lk.kind = "Pending" ->
            LET now == get_recipient(routes[fr.arb], fr.t) IN
            IF now.kind = "Done" THEN [kind |-> "Ready", h |-> now.h]
            ELSE IF fr.st = "ok" THEN [kind |-> "Ready", h |-> fr.val]
            ELSE IF fr.st = "err" THEN [kind |-> "Fail"]
            ELSE [kind |-> "NotReady"]

\* The result of the get_recipient future of a task, given the Route it
\* cloned and (for a Pending route) the Shared as its poll leaves it.
recipient_of(lk, fr) ==
    CASE lk.kind = "Absent" -> [kind |-> "Fail"]
      [] lk.kind = "Done" -> [kind |-> "Ready", h |-> lk.h]
      [] lk.kind = "Pending" ->
            IF fr.st = "ok" THEN [kind |-> "Ready", h |-> fr.val]
            ELSE IF fr.st = "err" THEN [kind |-> "Fail"]
            ELSE [kind |-> "NotReady"]

\* A forward that hands h a default request instead of the caller's.
forward_default(call, h) == Append(call.fwd, [h |-> h, t |-> call.t, val |-> NoVal])

\* h.send(msg) of Handler<M>::handle: the request as it is handed to h.
forward(call, h) == Append(call.fwd, [h |-> h, t |-> call.t, val |-> call.val])

\* One poll of the future of Handler<M>::handle before the request has been
\* forwarded: get_recipient's future, its error mapped to RouterError, then
\* h.send(msg).
TaskLookup(c) ==
    /\ calls[c].pc = "task"
    /\ LET lk == calls[c].look
           f == IF lk.kind = "Pending" THEN lk.fut ELSE 1
           fr == Shared_poll(futs[f])
           r == recipient_of(lk, fr)
       IN
        /\ futs' = IF lk.kind = "Pending" THEN [futs EXCEPT ![f] = fr] ELSE futs
        /\ CASE r.kind = "Fail" ->
                    calls' = [calls EXCEPT ![c].pc = "done",
                                           ![c].err = "RouterError",
                                           ![c].result = SoarResponse_handle(Err("RouterError"))]
             [] r.kind = "Ready" ->
                    calls' = [calls EXCEPT ![c].pc = "forwarded",
                                           ![c].fwd = forward(calls[c], r.h)]
             [] r.kind = "NotReady" ->
                    /\ futs' # futs
                    /\ UNCHANGED calls
    /\ UNCHANGED <<routes, mailbox, hist, nsent>>

\* One poll of the same future once the handler has answered the forwarded
\* request: a response goes to the caller, a closed mailbox is an error
\* (map_err(Error::from)).
TaskReply(c) ==
    /\ calls[c].pc = "forwarded"
    /\ calls[c].reply.kind # "None"
    /\ calls' = [calls EXCEPT
            ![c].pc = "done",
            ![c].err = IF calls[c].reply.kind = "Ok" THEN "none" ELSE "MailboxError",
            ![c].result = SoarResponse_handle(
                IF calls[c].reply.kind = "Ok" THEN Ok(calls[c].reply.resp)
                ELSE Err("MailboxError"))]
    /\ UNCHANGED <<routes, mailbox, futs, hist, nsent>>

\* A promotion task that does not write the table.
promote_skipped(rt, fr) == rt

\* The closure of the promotion task: router.insert_handler(recip.deref().clone()).
promote(rt, fr) == insert_handler(rt, fr.t, fr.val)

\* A promotion task spawned on the arbiter (Arbiter::spawn) instead of the
\* Router's context: it is polled whatever the Router's mailbox holds.
PromotePoll_any_time(f) ==
    /\ futs[f].promo = "active"
    /\ LET fr == Shared_poll(futs[f]) IN
        CASE fr.st = "ok" ->
                /\ futs' = [futs EXCEPT ![f] = [fr EXCEPT !.promo = "finished"]]
                /\ routes' = [routes EXCEPT ![fr.arb] = promote(@, fr)]
                /\ hist' = [hist EXCEPT ![fr.arb] =
                                Append(@, [op |-> "Promote", t |-> fr.t, fut |-> f, h |-> fr.val])]
          [] fr.st = "err" ->
                /\ futs' = [futs EXCEPT ![f] = [fr EXCEPT !.promo = "finished"]]
                /\ UNCHANGED <<routes, hist>>
          [] OTHER ->
                /\ fr # futs[f]
                /\ futs' = [futs EXCEPT ![f] = fr]
                /\ UNCHANGED <<routes, hist>>
    /\ UNCHANGED <<mailbox, calls, nsent>>

\* A promotion task that removes the entry of its type when the computation
\* fails.
PromotePoll_removes_on_error(f) ==
    /\ futs[f].promo = "active"
    /\ mailbox[futs[f].arb] = <<>>
    /\ LET fr == Shared_poll(futs[f]) IN
        CASE fr.st = "ok" ->
                /\ futs' = [futs EXCEPT ![f] = [fr EXCEPT !.promo = "finished"]]
                /\ routes' = [routes EXCEPT ![fr.arb] = promote(@, fr)]
                /\ hist' = [hist EXCEPT ![fr.arb] =
                                Append(@, [op |-> "Promote", t |-> fr.t, fut |-> f, h |-> fr.val])]
          [] fr.st = "err" ->
                /\ futs' = [futs EXCEPT ![f] = [fr EXCEPT !.promo = "finished"]]
                /\ routes' = [routes EXCEPT ![fr.arb] = anymap_remove(@, TypeIdRoute(fr.t))]
                /\ UNCHANGED hist
          [] OTHER ->
                /\ fr # futs[f]
                /\ futs' = [futs EXCEPT ![f] = fr]
                /\ UNCHANGED <<routes, hist>>
    /\ UNCHANGED <<mailbox, calls, nsent>>

\* One poll of the promotion task of Handler<AddRouteFuture<M, F>>::handle:
\* shared.clone().into_actor(..).map(|recip, router, _| router.insert_handler(..)).
\* On an error map is skipped and the task ends.  The task was spawned on the
\* Router's context (ctxt.spawn), whose poll handles the mailbox before it
\* polls the spawned futures.
PromotePoll(f) ==
    /\ futs[f].promo = "active"
    /\ mailbox[futs[f].arb] = <<>>
    /\ LET fr == Shared_poll(futs[f]) IN
        CASE fr.st = "ok" ->
                /\ futs' = [futs EXCEPT ![f] = [fr EXCEPT !.promo = "finished"]]
                /\ routes' = [routes EXCEPT ![fr.arb] = promote(@, fr)]
                /\ hist' = [hist EXCEPT ![fr.arb] =
                                Append(@, [op |-> "Promote", t |-> fr.t, fut |-> f, h |-> fr.val])]
          [] fr.st = "err" ->
                /\ futs' = [futs EXCEPT ![f] = [fr EXCEPT !.promo = "finished"]]
                /\ UNCHANGED <<routes, hist>>
          [] OTHER ->
                /\ fr # futs[f]
                /\ futs' = [futs EXCEPT ![f] = fr]
                /\ UNCHANGED <<routes, hist>>
    /\ UNCHANGED <<mailbox, calls, nsent>>

\* ---------------------------------------------------------------- handlers
\* A TestHandler handles the request forwarded to it and answers.
HandlerHandle(c) ==
    /\ calls[c].pc = "forwarded"
    /\ calls[c].reply.kind = "None"
    /\ LET m == calls[c].fwd[Len(calls[c].fwd)] IN
        /\ m.h \in LocalHandlers
        /\ calls' = [calls EXCEPT ![c].reply = Ok(TestHandler_handle(m.t, m.val))]
    /\ UNCHANGED <<routes, mailbox, futs, hist, nsent>>


\* TestIntoHandler, a handler of TestMessageEmpty only.
IntoHandlers == {"into"}

\* The requests of type TestMessageEmpty whose handler may still send its
\* TestMessage.
Pledged ==
    {c \in Calls : /\ calls[c].t = "TestMessageEmpty"
                   /\ calls[c].pc \in {"queued", "task", "forwarded"}
                   /\ calls[c].inner = 0}

\* service::send called on arbiter a: the free function send, which resolves
\* the Router of the calling arbiter.
service_send(a) == registry_get(a)

\* Handler<TestMessageEmpty> for TestIntoHandler: it calls
\* service::send(TestMessage(42)) on its arbiter, which puts the message in
\* the mailbox of that arbiter's Router, and returns the future of that send
\* as its SoarResponse.
IntoHandle(c) ==
    /\ calls[c].pc = "forwarded"
    /\ calls[c].reply.kind = "None"
    /\ calls[c].inner = 0
    /\ calls[c].fwd[Len(calls[c].fwd)].h \in IntoHandlers
    /\ \E d \in Calls :
        /\ calls[d].pc = "idle"
        /\ \A e \in Calls : e < d => calls[e].pc # "idle"
        /\ LET a == calls[c].arb
               r == service_send(a)
           IN
            /\ mailbox' = [mailbox EXCEPT ![r] =
                            Append(@, [op |-> "Dispatch", from |-> a, t |-> "TestMessage", call |-> d,
                                       after |-> JustRegistered(mailbox[r], a, "TestMessage")])]
            /\ calls' = [calls EXCEPT ![c].inner = d,
                                      ![d].pc = "queued", ![d].arb = a,
                                      ![d].t = "TestMessage", ![d].val = 42]
    /\ UNCHANGED <<routes, futs, hist, nsent>>

\* MessageResponse::handle for the SoarResponse of TestIntoHandler: once the
\* inner send has completed, () is sent on the reply channel of the outer
\* request, or the channel is dropped on an error.
IntoReply(c) ==
    /\ calls[c].pc = "forwarded"
    /\ calls[c].reply.kind = "None"
    /\ calls[c].inner # 0
    /\ calls[calls[c].inner].pc = "done"
    /\ calls' = [calls EXCEPT ![c].reply =
                    SoarResponse_handle(IF calls[calls[c].inner].result.kind = "Ok"
                                        THEN Ok(Unit) ELSE Err("MailboxError"))]
    /\ UNCHANGED <<routes, mailbox, futs, hist, nsent>>

\* ------------------------------------------------------ the HTTP handlers
\* HttpHandler<M>(Url, PhantomData): the JSON variant of channel.rs and
\* the bincode variant of http/client.rs, each pointed at a URL that is served
\* ("up") or unreachable ("down").
HttpHandlers == {"json_up", "json_down", "bincode_up", "bincode_down"}
Codec(h) == IF h \in {"json_up", "json_down"} THEN "json" ELSE "bincode"
Unreachable(h) == h \in {"json_down", "bincode_down"}

\* The decimal text of a number, as ASCII bytes.
RECURSIVE Decimal(_)
Decimal(n) == IF n < 10 THEN <<48 + n>> ELSE Append(Decimal(n \div 10), 48 + (n % 10))

\* The number a sequence of ASCII digits writes.
RECURSIVE DigitsValue(_)
DigitsValue(b) ==
    IF b = <<>> THEN 0
    ELSE 10 * DigitsValue(SubSeq(b, 1, Len(b) - 1)) + (b[Len(b)] - 48)

\* .json(msg): serde_json writes the newtype struct TestMessage(u8) /
\* TestResponse(u8) as its number.
json_encode(v) == Decimal(v)

\* resp.json() on the body, for TestResponse(u8): one JSON number in 0..255 and
\* nothing else.
json_decode(b) ==
    IF b = <<>> \/ (\E i \in 1..Len(b) : b[i] \notin 48..57) THEN Err("serialization")
    ELSE IF Len(b) > 1 /\ b[1] = 48 THEN Err("serialization")
    ELSE IF DigitsValue(b) > 255 THEN Err("serialization")
    ELSE Ok(DigitsValue(b))

\* bincode::serialize of the newtype struct around a u8: the byte.
bincode_encode(v) == <<v>>

\* bincode::deserialize(&body) for TestResponse(u8): the first byte; an empty
\* body is an error, bytes after the value are not looked at.
bincode_decode(b) == IF b = <<>> THEN Err("serialization") ELSE Ok(b[1])

encode(codec, v) == IF codec = "json" THEN json_encode(v) ELSE bincode_encode(v)

\* The payload of a request whose Serialize implementation fails (serde lets
\* an implementation return an error; a u8 is always encodable).
Unserializable == 256

\* serde_json::to_string(&msg) inside .json(msg), bincode::serialize(&msg):
\* the encoded body, or the serializer's error.
serialize(codec, v) ==
    IF v = Unserializable THEN Err("serialization") ELSE Ok(encode(codec, v))

\* The encodings of every u8, by codec.
Encodings == [codec \in {"json", "bincode"} |-> [v \in 0..255 |-> encode(codec, v)]]

\* What an HTTP exchange can end with: no connection (or a timeout), or a
\* response with a status, a content type and a body.
Bodies == {<<>>, json_encode(138), bincode_encode(138)}
ConnFail == [kind |-> "ConnFail"]
Responses ==
    [kind : {"Response"}, status : {200, 500},
     ctype : {"application/json", "application/octet-stream"}, body : Bodies]
Outcomes(h) == IF Unreachable(h) THEN {ConnFail} ELSE Responses \cup {ConnFail}

\* handle_request decoding the body with the other variant's codec.
handle_request_other_codec(h, out) ==
    IF out.kind = "ConnFail" THEN Err("transport")
    ELSE LET d == IF Codec(h) = "json" THEN bincode_decode(out.body)
                  ELSE json_decode(out.body) IN
         IF d.kind = "Ok" THEN Ok(TestResponse(d.resp)) ELSE d

\* handle_request answering a default response when the connection fails.
handle_request_default_on_error(h, out) ==
    IF out.kind = "ConnFail" THEN Ok(TestResponse(NoVal))
    ELSE LET d == IF Codec(h) = "json" THEN json_decode(out.body)
                  ELSE bincode_decode(out.body) IN
         IF d.kind = "Ok" THEN Ok(TestResponse(d.resp)) ELSE d

\* The future handle_request returns, given how the exchange ended.
\* channel.rs: .send().map_err(Error::from).and_then(|resp| resp.json()...);
\* http/client.rs: .send().map_err(..).and_then(|resp| resp.body()..)
\*                 .and_then(|body| bincode::deserialize(&body)).
handle_request(h, out) ==
    IF out.kind = "ConnFail" THEN Err("transport")
    ELSE IF Codec(h) = "json" THEN
        IF out.ctype # "application/json" THEN Err("serialization")
        ELSE LET d == json_decode(out.body) IN
             IF d.kind = "Ok" THEN Ok(TestResponse(d.resp)) ELSE d
    ELSE LET d == bincode_decode(out.body) IN
         IF d.kind = "Ok" THEN Ok(TestResponse(d.resp)) ELSE d

\* The actor that owns the HttpHandler answers the forwarded request with the
\* value handle_request produced; on an error it has no M::Response to
\* answer with and the reply channel closes.
Service_reply(res) == IF res.kind = "Ok" THEN Ok(res.resp) ELSE [kind |-> "Closed"]

\* handle_request is called with the forwarded request: the message is
\* encoded and ClientRequest::post(url)...send() starts the one exchange.
\* channel.rs unwraps the result of .json(msg), so an encoding error panics
\* in handle_request; http/client.rs puts the result of bincode::serialize
\* in future::result, so an encoding error is the error of the returned
\* future and no exchange is made.
HttpRequest(c) ==
    /\ calls[c].pc = "forwarded"
    /\ calls[c].reply.kind = "None"
    /\ calls[c].http.st = "none"
    /\ LET m == calls[c].fwd[Len(calls[c].fwd)]
           enc == serialize(Codec(m.h), m.val)
       IN
        /\ m.h \in HttpHandlers
        /\ IF enc.kind = "Ok" THEN
                calls' = [calls EXCEPT ![c].http =
                            [@ EXCEPT !.st = "sent", !.attempts = @ + 1, !.req = enc.resp]]
           ELSE IF Codec(m.h) = "json" THEN
                calls' = [calls EXCEPT ![c].http = [@ EXCEPT !.st = "panicked"]]
           ELSE
                calls' = [calls EXCEPT ![c].http = [@ EXCEPT !.st = "done", !.res = enc],
                                       ![c].reply = Service_reply(enc)]
    /\ UNCHANGED <<routes, mailbox, futs, hist, nsent>>

\* The exchange ends and the future of handle_request completes.
HttpExchange(c, out) ==
    /\ calls[c].http.st = "sent"
    /\ LET h == calls[c].fwd[Len(calls[c].fwd)].h
           res == handle_request(h, out)
       IN
        /\ out \in Outcomes(h)
        /\ calls' = [calls EXCEPT ![c].http = [@ EXCEPT !.st = "done", !.out = out, !.res = res],
                                  ![c].reply = Service_reply(res)]
    /\ UNCHANGED <<routes, mailbox, futs, hist, nsent>>

\* ------------------------------------------------------------ specification
\* The request type the runs of Spec register, remove and send.
RoutedTypes == {"TestMessage"}

\* One step of a run whose requests carry payloads from V.
Step(V) ==
    \/ \E c \in Calls, t \in RoutedTypes : \E v \in V : Send(Main, c, t, v)
    \/ \E t \in RoutedTypes, h \in LocalHandlers : ReqAddRoute(Main, t, h)
    \/ \E t \in RoutedTypes, f \in Futs : ReqAddRouteFuture(Main, t, f)
    \/ \E t \in RoutedTypes : ReqRemoveRoute(Main, t)
    \/ HandleAddRoute(Main)
    \/ HandleAddRouteFuture(Main)
    \/ HandleRemoveRoute(Main)
    \/ HandleDispatch(Main)
    \/ \E f \in Futs, h \in LocalHandlers : Construct(f, TRUE, h)
    \/ \E f \in Futs : Construct(f, FALSE, "none")
    \/ \E f \in Futs : PromotePoll(f)
    \/ \E c \in Calls : TaskLookup(c)
    \/ \E c \in Calls : TaskReply(c)
    \/ \E c \in Calls : HandlerHandle(c)

Next == Step(Values)

Spec == Init /\ [][Next]_vars


\* The context of the Router of arbiter a handles the next message of its
\* mailbox.
RouterHandle(a) ==
    HandleAddRoute(a) \/ HandleAddRouteFuture(a) \/ HandleRemoveRoute(a) \/ HandleDispatch(a)

\* What the arbiter and the handler actors do for one send call once the
\* Router has handled it: a poll of its spawned future, or the handler
\* handling the request forwarded to it.  At most one of them is possible at
\* a time.
CallStep(c) == TaskLookup(c) \/ TaskReply(c) \/ HandlerHandle(c)

\* The arbiter polls every spawned future that can make progress, the
\* Router's context handles its mailbox and polls its promotion tasks, and a
\* handler actor handles the requests in its mailbox.  Callers, the bootstrap
\* and the computations behind pending routes are under no obligation.
Fairness ==
    /\ WF_vars(RouterHandle(Main))
    /\ \A c \in Calls : WF_vars(CallStep(c))
    /\ \A f \in Futs : WF_vars(PromotePoll(f))

\* The runs whose requests all carry the payload of the tests' request,
\* under Fairness.
FairNext == Step({138})

FairSpec == Init /\ [][FairNext]_vars /\ Fairness

\* The runs in which the routes lead to HttpHandlers.
HttpStep(V) ==
    \/ \E c \in Calls, t \in RoutedTypes : \E v \in V : Send(Main, c, t, v)
    \/ \E t \in RoutedTypes, h \in HttpHandlers : ReqAddRoute(Main, t, h)
    \/ HandleAddRoute(Main)
    \/ HandleDispatch(Main)
    \/ \E c \in Calls : TaskLookup(c)
    \/ \E c \in Calls : TaskReply(c)
    \/ \E c \in Calls : HttpRequest(c)
    \/ \E c \in Calls : \E out \in Responses \cup {ConnFail} : HttpExchange(c, out)

HttpNext == HttpStep(Values)

HttpSpec == Init /\ [][HttpNext]_vars

\* The same for a call forwarded to an HttpHandler: handle_request is called,
\* and the exchange it starts ends (with a response, or with a connection
\* error or the client's timeout).
HttpCallStep(c) ==
    \/ TaskLookup(c)
    \/ TaskReply(c)
    \/ HttpRequest(c)
    \/ \E out \in Responses \cup {ConnFail} : HttpExchange(c, out)

HttpFairness ==
    /\ WF_vars(RouterHandle(Main))
    /\ \A c \in Calls : WF_vars(HttpCallStep(c))

HttpFairNext == HttpStep({138})

HttpFairSpec == Init /\ [][HttpFairNext]_vars /\ HttpFairness

\* The runs in which TestMessageEmpty is routed to a TestIntoHandler, whose
\* handling sends a TestMessage through the same Router.  A request of type
\* TestMessageEmpty is sent only when a call is left for the send of its
\* handler.
NestNext ==
    \/ \E c \in Calls :
        /\ Cardinality({d \in Calls : calls[d].pc # "idle"}) + Cardinality(Pledged) + 2 <= MaxMsgs
        /\ Send(Main, c, "TestMessageEmpty", NoVal)
    \/ \E h \in IntoHandlers \cup {"h1"} : ReqAddRoute(Main, "TestMessageEmpty", h)
    \/ ReqAddRoute(Main, "TestMessage", "h1")
    \/ HandleAddRoute(Main)
    \/ HandleDispatch(Main)
    \/ \E c \in Calls : TaskLookup(c)
    \/ \E c \in Calls : TaskReply(c)
    \/ \E c \in Calls : HandlerHandle(c)
    \/ \E c \in Calls : IntoHandle(c)
    \/ \E c \in Calls : IntoReply(c)

\* What the arbiter and the handler actors do for one send call, the
\* TestIntoHandler included.
NestCallStep(c) ==
    TaskLookup(c) \/ TaskReply(c) \/ HandlerHandle(c) \/ IntoHandle(c) \/ IntoReply(c)

NestFairness ==
    /\ WF_vars(RouterHandle(Main))
    /\ \A c \in Calls : WF_vars(NestCallStep(c))

NestSpec == Init /\ [][NestNext]_vars /\ NestFairness

\* The runs in which callers and the bootstrap work on two arbiters.
CtxNext ==
    \/ \E a \in Arbiters, c \in Calls, t \in RoutedTypes : Send(a, c, t, 138)
    \/ \E a \in Arbiters, t \in RoutedTypes : ReqAddRoute(a, t, "h1")
    \/ \E a \in Arbiters, t \in RoutedTypes, f \in Futs : ReqAddRouteFuture(a, t, f)
    \/ \E a \in Arbiters, t \in RoutedTypes : ReqRemoveRoute(a, t)
    \/ \E a \in Arbiters : HandleAddRoute(a)
    \/ \E a \in Arbiters : HandleAddRouteFuture(a)
    \/ \E a \in Arbiters : HandleRemoveRoute(a)
    \/ \E a \in Arbiters : HandleDispatch(a)
    \/ \E f \in Futs : Construct(f, TRUE, "h2")
    \/ \E f \in Futs : PromotePoll(f)
    \/ \E c \in Calls : TaskLookup(c)
    \/ \E c \in Calls : TaskReply(c)
    \/ \E c \in Calls : HandlerHandle(c)

CtxSpec == Init /\ [][CtxNext]_vars

\* The runs through HttpHandlers in which a request may fail to encode.
CodecNext == HttpStep({138, Unserializable})

CodecSpec == Init /\ [][CodecNext]_vars

\* ------------------------------------------------------------------ claims
Dispatched(c) == calls[c].pc \in {"task", "forwarded", "done"}

\* The table writes of the Router of the arbiter a call was sent on.
Hist(c) == hist[calls[c].arb]

\* C1: a send whose dispatch finds no entry for its type in the routing table
\* always completes, with a failure; the caller is never left pending.
C1_NoRouteSendFails ==
    \A c \in Calls :
        (calls[c].pc = "task" /\ calls[c].look = Absent)
            ~> (calls[c].pc = "done" /\ calls[c].result.kind = "Err")

C1_Witness ==
    \E c \in Calls :
        /\ calls[c].pc = "done"
        /\ calls[c].look = Absent
        /\ calls[c].result.kind = "Err"

\* C2: when the lookup finds no route, the failure the caller of send
\* receives is the RouterError that dispatch created.
C2_CallerGetsRouterError ==
    \A c \in Calls :
        (calls[c].pc = "done" /\ calls[c].look = Absent)
            => calls[c].result = Err("RouterError")

\* C3: a request dispatched on a Done(h) entry, h an echoing TestHandler, is
\* forwarded once and unmodified to h, and send returns TestResponse(x) for
\* TestMessage(x).
C3_DoneRouteEchoes ==
    \A c \in Calls :
        (Dispatched(c) /\ calls[c].look.kind = "Done") =>
            /\ calls[c].fwd \in {<<>>, <<[h |-> calls[c].look.h, t |-> calls[c].t,
                                         val |-> calls[c].val]>>}
            /\ calls[c].pc \in {"forwarded", "done"} => Len(calls[c].fwd) = 1
            /\ calls[c].pc = "done" => calls[c].result = Ok(TestResponse(calls[c].val))

C3_Witness ==
    \E c \in Calls :
        /\ calls[c].pc = "done"
        /\ calls[c].look.kind = "Done"
        /\ calls[c].val = 138
        /\ calls[c].result = Ok(TestResponse(138))

\* C4: a request dispatched when the last two table writes the Router handled
\* were AddRoute(h1) then AddRoute(h2) for its type is forwarded only to h2.
C4_SecondRegistrationWins ==
    \A c \in Calls :
        LET n == calls[c].at IN
        (/\ Dispatched(c)
         /\ n >= 2
         /\ Hist(c)[n].op = "AddRoute" /\ Hist(c)[n].t = calls[c].t
         /\ Hist(c)[n - 1].op = "AddRoute" /\ Hist(c)[n - 1].t = calls[c].t)
        => /\ calls[c].look = Done(Hist(c)[n].h)
           /\ \A i \in 1..Len(calls[c].fwd) : calls[c].fwd[i].h = Hist(c)[n].h

C4_Witness ==
    \E c \in Calls :
        LET n == calls[c].at IN
        /\ calls[c].pc = "done"
        /\ n >= 2
        /\ Hist(c)[n].op = "AddRoute" /\ Hist(c)[n - 1].op = "AddRoute"
        /\ Hist(c)[n].h # Hist(c)[n - 1].h
        /\ Len(calls[c].fwd) = 1
        /\ calls[c].fwd[1].h = Hist(c)[n].h

\* C5: a request dispatched when the last registration message the Router
\* handled was RemoveRoute for its type finds no route: it is not forwarded
\* and its send fails.
C5_RemovedRouteFails ==
    \A c \in Calls :
        LET n == calls[c].at IN
        (/\ Dispatched(c)
         /\ n >= 1
         /\ Hist(c)[n].op = "RemoveRoute" /\ Hist(c)[n].t = calls[c].t)
        => /\ calls[c].look = Absent
           /\ calls[c].fwd = <<>>
           /\ calls[c].pc = "done" => calls[c].result.kind = "Err"

\* The computation behind a Shared has been started at most once, and once
\* if the Shared has been polled.
C6_RunsOnce ==
    \A f \in Futs :
        /\ futs[f].runs <= 1
        /\ futs[f].st \in {"polling", "ok", "err"} => futs[f].runs = 1

\* A request dispatched on a Pending entry is forwarded at most once, and
\* then unmodified to the reference the Shared of that entry holds.
C6_SameTarget ==
    \A c \in Calls :
        (Dispatched(c) /\ calls[c].look.kind = "Pending") =>
            /\ Len(calls[c].fwd) <= 1
            /\ \A i \in 1..Len(calls[c].fwd) :
                /\ futs[calls[c].look.fut].st = "ok"
                /\ calls[c].fwd[i] = [h |-> futs[calls[c].look.fut].val,
                                      t |-> calls[c].t, val |-> calls[c].val]

\* C6: the computation behind a pending route is started exactly once however
\* many clones of the Shared are polled; every request dispatched on the
\* Pending entry is forwarded, once, to the one reference the computation
\* resolved to; and once the computation has succeeded each waiting request
\* is forwarded.
C6_PendingSharedOnce ==
    /\ [](C6_RunsOnce /\ C6_SameTarget)
    /\ \A f \in Futs : (futs[f].st = "idle") ~> (futs[f].runs = 1)
    /\ \A c \in Calls :
        (/\ calls[c].pc = "task"
         /\ calls[c].look.kind = "Pending"
         /\ futs[calls[c].look.fut].ready = "ok")
            ~> (Len(calls[c].fwd) = 1)

C6_Witness ==
    \E c, d \in Calls :
        /\ c # d
        /\ calls[c].look.kind = "Pending"
        /\ calls[d].look = calls[c].look
        /\ Len(calls[c].fwd) = 1 /\ Len(calls[d].fwd) = 1
        /\ calls[c].fwd[1].h = calls[d].fwd[1].h
        /\ futs[calls[c].look.fut].runs = 1

\* C7 as stated: no lookup observes Pending once the computation behind the
\* route has resolved (the Shared holds its result).
C7_NoPendingAfterResolved ==
    [][\A a \in Arbiters :
        (/\ mailbox[a] # <<>>
         /\ Head(mailbox[a]).op = "Dispatch"
         /\ mailbox'[a] = Tail(mailbox[a]))
        => LET r == get_recipient(routes[a], Head(mailbox[a]).t) IN
             r.kind = "Pending" => futs[r.fut].st # "ok"]_vars

\* A request dispatched when the last table write was a promotion finds
\* Done(the reference promoted).
C7_Promoted ==
    \A c \in Calls :
        LET n == calls[c].at IN
        (/\ Dispatched(c)
         /\ n >= 1
         /\ Hist(c)[n].op = "Promote" /\ Hist(c)[n].t = calls[c].t)
        => calls[c].look = Done(Hist(c)[n].h)

\* C7, amended: a request dispatched when the last table write was the
\* promotion of a resolved computation finds Done(resolved reference), and an
\* entry goes from Done to Pending only by the Router handling a new
\* AddRouteFuture for the type.
C7_PromotionDurable ==
    /\ []C7_Promoted
    /\ [][\A a \in Arbiters, t \in Types :
            (/\ routes[a][TypeIdRoute(t)].kind = "Done"
             /\ routes'[a][TypeIdRoute(t)].kind = "Pending")
            => (/\ mailbox[a] # <<>>
                /\ Head(mailbox[a]).op = "AddRouteFuture"
                /\ Head(mailbox[a]).t = t
                /\ mailbox'[a] = Tail(mailbox[a]))]_vars

C7_Witness ==
    \E c \in Calls :
        LET n == calls[c].at IN
        /\ calls[c].pc = "done"
        /\ n >= 1
        /\ Hist(c)[n].op = "Promote"
        /\ calls[c].look = Done(Hist(c)[n].h)
        /\ calls[c].result.kind = "Ok"


\* The handler reference a call was forwarded to.
HttpTarget(c) == calls[c].fwd[Len(calls[c].fwd)].h

\* C8: when the remote service answers the POST with a success status and the
\* encoding of a response value r (a JSON response for the JSON variant, the
\* bincode bytes for the other), the handler produces exactly r, send returns
\* exactly r, and the send made one HTTP exchange.
C8_HttpSuccessReturnsResponse ==
    \A c \in Calls :
        LET x == calls[c].http IN
        /\ x.attempts <= 1
        /\ (/\ x.st = "done"
            /\ x.out.kind = "Response"
            /\ x.out.status = 200
            /\ Codec(HttpTarget(c)) = "json" => x.out.ctype = "application/json")
           => \A r \in 0..255 :
                x.out.body = Encodings[Codec(HttpTarget(c))][r]
                => /\ x.attempts = 1
                   /\ x.res = Ok(TestResponse(r))
                   /\ calls[c].pc = "done" => calls[c].result = Ok(TestResponse(r))

C8_Witness ==
    \E c \in Calls :
        /\ calls[c].pc = "done"
        /\ calls[c].val = 138
        /\ calls[c].http.out.kind = "Response"
        /\ calls[c].http.out.status = 200
        /\ calls[c].http.out.body = json_encode(138)
        /\ HttpTarget(c) = "json_up"
        /\ calls[c].http.attempts = 1
        /\ calls[c].result = Ok(TestResponse(138))

\* C9: a response with a non-OK status makes handle_request fail whatever the
\* body is; a decoded value is returned only for a success status.
C9_NonOkStatusFails ==
    \A c \in Calls :
        LET x == calls[c].http IN
        (x.st = "done" /\ x.out.kind = "Response" /\ x.out.status # 200)
            => x.res.kind = "Err"

\* A send forwarded to an HttpHandler at an unreachable URL makes at most one
\* attempt and holds no response value; when it is done it has failed, from
\* the transport error of its one attempt.
C10_UnreachableSafe ==
    \A c \in Calls :
        (calls[c].fwd # <<>> /\ Unreachable(HttpTarget(c))) =>
            /\ calls[c].http.attempts <= 1
            /\ calls[c].result.kind # "Ok"
            /\ calls[c].pc = "done" =>
                /\ calls[c].http.attempts = 1
                /\ calls[c].http.res = Err("transport")
                /\ calls[c].result.kind = "Err"

\* C10: a send routed to an HttpHandler whose URL is unreachable makes one
\* attempt, never returns a response value, and eventually completes with a
\* failure that comes from the transport error.
C10_UnreachableFails ==
    /\ []C10_UnreachableSafe
    /\ \A c \in Calls :
        (calls[c].pc = "forwarded" /\ Unreachable(HttpTarget(c)))
            ~> (calls[c].pc = "done" /\ calls[c].result.kind = "Err")

C10_Witness ==
    \E c \in Calls :
        /\ calls[c].pc = "done"
        /\ calls[c].fwd # <<>>
        /\ Unreachable(HttpTarget(c))
        /\ calls[c].http.attempts = 1
        /\ calls[c].http.out = ConnFail
        /\ calls[c].result.kind = "Err"

\* The result of decoding a response body with the codec of handler h.
Decoded(h, out) ==
    IF Codec(h) = "json" THEN
        (IF out.ctype = "application/json" THEN json_decode(out.body) ELSE Err("serialization"))
    ELSE bincode_decode(out.body)

\* C11: a serialization failure in handle_request (encoding the request, or
\* decoding the response body) is the failure value of the enclosing send:
\* handle_request does not panic, and no response value is produced or
\* returned, for the JSON and the bincode variant.
C11_SerializationFailureSurfaced ==
    \A c \in Calls :
        LET x == calls[c].http IN
        /\ x.st # "panicked"
        /\ (calls[c].fwd # <<>> /\ calls[c].val = Unserializable) =>
                /\ x.attempts = 0
                /\ calls[c].reply.kind # "Ok"
                /\ x.st = "done" => x.res = Err("serialization")
                /\ calls[c].pc = "done" => calls[c].result.kind = "Err"
        /\ (x.st = "done" /\ x.out.kind = "Response"
                /\ Decoded(HttpTarget(c), x.out).kind = "Err") =>
                /\ x.res = Err("serialization")
                /\ calls[c].reply.kind # "Ok"
                /\ calls[c].pc = "done" => calls[c].result.kind = "Err"

\* The Router has handled an AddRoute for the type of call c after it
\* dispatched c.
Overwritten(c) ==
    \E i \in (calls[c].at + 1)..Len(Hist(c)) :
        Hist(c)[i].op = "AddRoute" /\ Hist(c)[i].t = calls[c].t

\* C12: an AddRoute(h) handled while the entry is Pending(f) makes the entry
\* Done(h) and touches no call; a request that had been dispatched on
\* Pending(f) before it is forwarded, once and unmodified, to the reference f
\* resolved to, not to h, and once f has succeeded it is forwarded.
C12_OverwriteKeepsWaiters ==
    /\ [][\A a \in Arbiters :
            (/\ mailbox[a] # <<>>
             /\ Head(mailbox[a]).op = "AddRoute"
             /\ mailbox'[a] = Tail(mailbox[a])
             /\ get_recipient(routes[a], Head(mailbox[a]).t).kind = "Pending")
            => /\ get_recipient(routes'[a], Head(mailbox[a]).t) = Done(Head(mailbox[a]).h)
               /\ calls' = calls]_vars
    /\ [](\A c \in Calls :
            (Dispatched(c) /\ calls[c].look.kind = "Pending" /\ Overwritten(c)) =>
                LET fr == futs[calls[c].look.fut] IN
                /\ Len(calls[c].fwd) <= 1
                /\ \A i \in 1..Len(calls[c].fwd) :
                    /\ fr.st = "ok"
                    /\ calls[c].fwd[i] = [h |-> fr.val, t |-> calls[c].t, val |-> calls[c].val]
                /\ (calls[c].pc = "done" /\ fr.st = "ok") =>
                    /\ Len(calls[c].fwd) = 1
                    /\ calls[c].result = Ok(TestResponse(calls[c].val)))
    /\ \A c \in Calls :
        (/\ calls[c].pc = "task"
         /\ calls[c].look.kind = "Pending"
         /\ Overwritten(c)
         /\ futs[calls[c].look.fut].ready = "ok")
            ~> (calls[c].pc = "done" /\ calls[c].result.kind = "Ok")

C12_Witness ==
    \E c \in Calls :
        LET n == calls[c].at IN
        /\ calls[c].pc = "done"
        /\ calls[c].look.kind = "Pending"
        /\ n >= 1 /\ Len(Hist(c)) > n
        /\ Hist(c)[n].op = "AddRouteFuture" /\ Hist(c)[n].fut = calls[c].look.fut
        /\ Hist(c)[n + 1].op = "AddRoute"
        /\ Hist(c)[n + 1].h # futs[calls[c].look.fut].val
        /\ Len(calls[c].fwd) = 1
        /\ calls[c].fwd[1].h = futs[calls[c].look.fut].val
        /\ calls[c].result.kind = "Ok"

\* C13: the poll in which the promotion task of a failed computation ends
\* leaves the routing table of every Router exactly as it was, does not start
\* the computation again, and afterwards neither the task nor the
\* computation runs again.
C13_FailedPromotionChangesNothing ==
    /\ [][\A f \in Futs :
            (futs[f].promo = "active" /\ futs'[f].promo = "finished" /\ futs'[f].st = "err")
            => /\ routes' = routes
               /\ hist' = hist
               /\ futs'[f].runs = futs[f].runs]_vars
    /\ [][\A f \in Futs :
            (futs[f].promo = "finished" /\ futs[f].st = "err")
            => futs'[f] = futs[f]]_vars

C13_Witness ==
    \E f \in Futs :
        /\ futs[f].promo = "finished"
        /\ futs[f].st = "err"
        /\ futs[f].runs = 1
        /\ get_recipient(routes[futs[f].arb], futs[f].t) = Pending(f)

\* C14 as stated: a lookup attached to a computation that failed never
\* completes.
C14_FailedLookupNeverCompletes ==
    \A c \in Calls :
        (/\ Dispatched(c)
         /\ calls[c].look.kind = "Pending"
         /\ futs[calls[c].look.fut].ready = "err")
        => calls[c].pc # "done"

\* C14, amended: a request dispatched on Pending(f), f a computation that
\* fails, is never forwarded to a handler, and once f has failed its send
\* completes, with a failure.
C14_FailedLookupFails ==
    /\ [](\A c \in Calls :
            (/\ Dispatched(c)
             /\ calls[c].look.kind = "Pending"
             /\ futs[calls[c].look.fut].ready = "err")
            => /\ calls[c].fwd = <<>>
               /\ calls[c].reply.kind = "None"
               /\ calls[c].pc = "done" => calls[c].result.kind = "Err")
    /\ \A c \in Calls :
        (/\ calls[c].pc = "task"
         /\ calls[c].look.kind = "Pending"
         /\ futs[calls[c].look.fut].ready = "err")
            ~> (calls[c].pc = "done" /\ calls[c].result.kind = "Err")

C14_Witness ==
    \E c \in Calls :
        /\ calls[c].pc = "done"
        /\ calls[c].look.kind = "Pending"
        /\ futs[calls[c].look.fut].st = "err"
        /\ calls[c].fwd = <<>>
        /\ calls[c].result.kind = "Err"

\* C15: whatever the requests already dispatched are waiting for (a pending
\* route, a handler's response), the Router can handle the message at the
\* head of its mailbox, every queued request is dispatched and the mailbox is
\* emptied.
C15_ServiceNeverWaits ==
    /\ [](mailbox[Main] # <<>> => ENABLED RouterHandle(Main))
    /\ \A c \in Calls : (calls[c].pc = "queued") ~> Dispatched(c)
    /\ (mailbox[Main] # <<>>) ~> (mailbox[Main] = <<>>)

\* A request waits for its pending route, whose computation has not
\* finished, and the Router has handled the registration sent after it.
C15_Witness ==
    \E c \in Calls :
        /\ calls[c].pc = "task"
        /\ calls[c].look.kind = "Pending"
        /\ futs[calls[c].look.fut].ready = "no"
        /\ Len(Hist(c)) > calls[c].at
        /\ Hist(c)[Len(Hist(c))].op = "AddRoute"
        /\ mailbox[Main] = <<>>

\* The entry of the table of Router a that operations for type t work on.
Entry(rt, t) == rt[TypeIdRoute(t)]

\* The table holds nothing but Route<M> values, and the Route<M> of a type
\* is absent, Done, or Pending on a computation for that type.
C16_TableTyped ==
    \A a \in Arbiters, t \in Types :
        /\ routes[a][TypeIdMsg(t)] = Absent
        /\ \/ Entry(routes[a], t) = Absent
           \/ Entry(routes[a], t).kind = "Done"
           \/ /\ Entry(routes[a], t).kind = "Pending"
              /\ futs[Entry(routes[a], t).fut].t = t
              /\ futs[Entry(routes[a], t).fut].arb = a

\* C16: the table holds at most one entry per request type, a Route of that
\* type, and every operation for a type works on that entry: an insert
\* leaves it Done(h), an insert_pending leaves it Pending, a remove leaves it
\* absent, the lookup of a dispatch reads it, and no operation touches the
\* entry of another type.
C16_OneTypedEntryPerType ==
    /\ []C16_TableTyped
    /\ [][\A a \in Arbiters :
            (mailbox[a] # <<>> /\ mailbox'[a] = Tail(mailbox[a])) =>
                LET m == Head(mailbox[a]) IN
                /\ \A u \in Types \ {m.t} : Entry(routes'[a], u) = Entry(routes[a], u)
                /\ m.op = "AddRoute" => Entry(routes'[a], m.t) = Done(m.h)
                /\ m.op = "AddRouteFuture" => Entry(routes'[a], m.t) = Pending(m.fut)
                /\ m.op = "RemoveRoute" => Entry(routes'[a], m.t) = Absent
                /\ m.op = "Dispatch" =>
                    /\ routes' = routes
                    /\ calls'[m.call].look = Entry(routes[a], m.t)]_vars

\* The Router of arbiter a has written an entry for type t in its first n
\* table writes.
Registered(a, t, n) == \E i \in 1..n : hist[a][i].t = t

\* C17: every message is delivered to the Router of the arbiter it was sent
\* on; a Router handling a message, or running a promotion, leaves the table
\* of every other arbiter unchanged; and a dispatch reads the table of the
\* arbiter the send was issued on, so a send on an arbiter whose Router has
\* registered nothing for the type finds no route, whatever the other
\* arbiter has registered.
C17_ContextsIsolated ==
    /\ [](\A a \in Arbiters : \A i \in 1..Len(mailbox[a]) : mailbox[a][i].from = a)
    /\ [](\A c \in Calls :
            (Dispatched(c) /\ ~Registered(calls[c].arb, calls[c].t, calls[c].at)) =>
                /\ calls[c].look = Absent
                /\ calls[c].fwd = <<>>
                /\ calls[c].pc = "done" => calls[c].result.kind = "Err")
    /\ [][\A a \in Arbiters :
            /\ (mailbox[a] # <<>> /\ mailbox'[a] = Tail(mailbox[a])) =>
                    LET m == Head(mailbox[a]) IN
                    /\ \A b \in Arbiters \ {m.from} : routes'[b] = routes[b]
                    /\ m.op = "Dispatch" =>
                            calls'[m.call].look = Entry(routes[calls[m.call].arb], m.t)
            /\ routes'[a] # routes[a] =>
                    \/ mailbox[a] # <<>> /\ mailbox'[a] = Tail(mailbox[a])
                    \/ \E f \in Futs : /\ futs[f].arb = a
                                        /\ futs[f].promo = "active"
                                        /\ futs'[f].promo = "finished"]_vars

C17_Witness ==
    \E c, d \in Calls :
        /\ calls[c].arb = "main" /\ calls[d].arb = "peer"
        /\ calls[c].t = calls[d].t
        /\ calls[c].pc = "done" /\ calls[c].result.kind = "Ok"
        /\ calls[d].pc = "done" /\ calls[d].look = Absent /\ calls[d].result.kind = "Err"
        /\ Entry(routes["main"], calls[c].t).kind = "Done"
        /\ Entry(routes["peer"], calls[c].t) = Absent
        /\ hist["peer"] = <<>>

\* The last table write of Router a for type t.
LastWrite(a, t) ==
    LET I == {i \in 1..Len(hist[a]) : hist[a][i].t = t} IN
    hist[a][CHOOSE i \in I : \A j \in I : j <= i]

\* Since it handled the AddRouteFuture of f, the Router has made another
\* table write for the type of f.
NewerDecision(f) ==
    LET w == LastWrite(futs[f].arb, futs[f].t) IN
    ~(w.op = "AddRouteFuture" /\ w.fut = f)

\* C18: when the computation of a pending route resolves after the Router has
\* handled a newer AddRoute, AddRouteFuture or RemoveRoute for the type, the
\* promotion leaves the entry of the type as that operation left it.
C18_PromotionKeepsNewerRoute ==
    [][\A f \in Futs :
        (/\ futs[f].promo = "active"
         /\ futs'[f].promo = "finished"
         /\ futs'[f].st = "ok"
         /\ NewerDecision(f))
        => Entry(routes'[futs[f].arb], futs[f].t) = Entry(routes[futs[f].arb], futs[f].t)]_vars

\* The call was forwarded to a TestIntoHandler.
IntoTarget(c) ==
    calls[c].fwd # <<>> /\ calls[c].fwd[Len(calls[c].fwd)].h \in IntoHandlers

\* The send a TestIntoHandler made for call c (c itself while it has made
\* none).
InnerOf(c) == IF calls[c].inner = 0 THEN c ELSE calls[c].inner

\* C19: a request forwarded by the Router to a TestIntoHandler, whose
\* handling sends TestMessage(42) through the same Router, always completes:
\* the inner send is dispatched and completes first, then the outer send
\* completes; when TestMessage is routed to a TestHandler the inner send
\* returns TestResponse(42) and the outer send returns ().
C19_NestedDispatchCompletes ==
    /\ [](\A c \in Calls :
            IntoTarget(c) =>
                /\ (calls[c].reply.kind # "None" \/ calls[c].pc = "done") =>
                    /\ calls[c].inner # 0
                    /\ calls[InnerOf(c)].pc = "done"
                    /\ calls[InnerOf(c)].t = "TestMessage"
                    /\ calls[InnerOf(c)].val = 42
                /\ (calls[c].pc = "done" /\ calls[InnerOf(c)].look.kind = "Done") =>
                    /\ calls[InnerOf(c)].result = Ok(TestResponse(42))
                    /\ calls[c].result = Ok(Unit))
    /\ \A c \in Calls :
        (calls[c].pc = "forwarded" /\ IntoTarget(c))
            ~> (calls[c].pc = "done" /\ calls[c].inner # 0 /\ calls[InnerOf(c)].pc = "done")
    /\ \A c \in Calls : (calls[c].pc = "queued") ~> (calls[c].pc = "done")

C19_Witness ==
    \E c \in Calls :
        /\ IntoTarget(c)
        /\ calls[c].pc = "done"
        /\ calls[c].inner # 0
        /\ calls[InnerOf(c)].arb = calls[c].arb
        /\ calls[InnerOf(c)].result = Ok(TestResponse(42))
        /\ calls[c].result = Ok(Unit)

\* A queued request that was sent right after add_route(h) for its type, on
\* the same arbiter: the AddRoute message is still right before it in the
\* mailbox, or the request is at the head of the mailbox, the AddRoute is the
\* last table write the Router has made and the entry of the type is Done(h).
C20_Ordered ==
    \A a \in Arbiters : \A i \in 1..Len(mailbox[a]) :
        LET m == mailbox[a][i] IN
        (m.op = "Dispatch" /\ m.after # "none") =>
            IF i > 1
            THEN mailbox[a][i - 1] = [op |-> "AddRoute", from |-> m.from, t |-> m.t, h |-> m.after]
            ELSE /\ hist[a] # <<>>
                 /\ hist[a][Len(hist[a])] = [op |-> "AddRoute", t |-> m.t, h |-> m.after]
                 /\ Entry(routes[a], m.t) = Done(m.after)

====
